---- MODULE Spec2Model ----
(***************************************************************************)
(* Repository layer of 2025-DW2-Estoque: ISQLAlchemyRepository and its two *)
(* specialisations, CategoriaRepository and ProdutoRepository, over the    *)
(* tables `categorias` and `produtos` of models.py.                         *)
(*                                                                         *)
(* Storage is the pair of tables, each a sequence of rows in rowid order   *)
(* (the order an unordered SELECT of the SQLite build returns).  A UUID is *)
(* a positive integer, SQL NULL in categoria_id is NoId.  Prices are       *)
(* DECIMAL(10,2) values counted in cents.  An entity value held by a       *)
(* caller is a record of its column values plus `loaded`, the set of       *)
(* attribute names present in the instance (what Session.merge copies).    *)
(***************************************************************************)
EXTENDS Integers, Sequences, FiniteSets, TLC

\* ---------------------------------------------------------------- bounds
NumCats == 2
NumProds == 2
MaxPage == 2
MaxRows == 2
MaxClock == 1
MaxBulk == 2

CatIds == 1..NumCats
ProdIds == 1..NumProds
NoId == 0
Nomes == {"A", "B"}
Precos == {0, 2500}

None == <<>>
Some(x) == <<x>>

VARIABLES categorias, produtos, now, last, txn

vars == <<categorias, produtos, now, last, txn>>

\* ------------------------------------------------------------- the tables
\* models.py: the columns of Categoria and Produto (with datasMixin).
CatCols == {"id", "nome", "dta_cadastro", "dta_atualizacao"}
ProdCols == {"id", "nome", "preco", "estoque", "ativo", "categoria_id",
             "dta_cadastro", "dta_atualizacao"}

DB(cs, ps) == [categorias |-> cs, produtos |-> ps]

HasRow(rows, id) == \E i \in 1..Len(rows) : rows[i].id = id

RowOf(rows, id) == rows[CHOOSE i \in 1..Len(rows) : rows[i].id = id]

IdsOf(rows) == {rows[i].id : i \in 1..Len(rows)}

RemoveIds(rows, ids) == SelectSeq(rows, LAMBDA r : r.id \notin ids)

ReplaceRow(rows, row) == [i \in 1..Len(rows) |-> IF rows[i].id = row.id THEN row ELSE rows[i]]

\* The rows of produtos whose foreign key is the category cid, in rowid order:
\* what loading Categoria.lista_de_produtos selects.
OwnedBy(ps, cid) == SelectSeq(ps, LAMBDA r : r.categoria_id = cid)

\* ------------------------------------------------------ flush: INSERT, UPDATE
\* ColumnProperty.merge: an attribute present in the given instance overwrites
\* the managed one; an absent attribute leaves it.
CopyCol(row, v, c) == IF c \in v.loaded THEN v[c] ELSE row[c]

MergeCategoriaCols(row, v) ==
    [id |-> row.id,
     nome |-> CopyCol(row, v, "nome"),
     dta_cadastro |-> CopyCol(row, v, "dta_cadastro"),
     dta_atualizacao |-> CopyCol(row, v, "dta_atualizacao")]

\* Fault for C8: the merge leaves the managed preco as loaded.
MergeProdutoCols_KeepsPreco(row, v) ==
    [id |-> row.id,
     nome |-> CopyCol(row, v, "nome"),
     preco |-> row.preco,
     estoque |-> CopyCol(row, v, "estoque"),
     ativo |-> CopyCol(row, v, "ativo"),
     categoria_id |-> CopyCol(row, v, "categoria_id"),
     dta_cadastro |-> CopyCol(row, v, "dta_cadastro"),
     dta_atualizacao |-> CopyCol(row, v, "dta_atualizacao")]

MergeProdutoCols(row, v) ==
    [id |-> row.id,
     nome |-> CopyCol(row, v, "nome"),
     preco |-> CopyCol(row, v, "preco"),
     estoque |-> CopyCol(row, v, "estoque"),
     ativo |-> CopyCol(row, v, "ativo"),
     categoria_id |-> CopyCol(row, v, "categoria_id"),
     dta_cadastro |-> CopyCol(row, v, "dta_cadastro"),
     dta_atualizacao |-> CopyCol(row, v, "dta_atualizacao")]

\* The UPDATE a flush emits for a dirty row: only when a column changed, and
\* then dta_atualizacao takes onupdate=func.now() unless it was set explicitly.
FlushUpdate(old, new, t) ==
    IF new = old THEN old
    ELSE IF new.dta_atualizacao # old.dta_atualizacao THEN new
    ELSE [new EXCEPT !.dta_atualizacao = t]

\* Fault for C5: the INSERT takes the column default for preco whatever the
\* instance carries.
InsertProduto_DefaultPreco(v, nid, t) ==
    [id |-> IF "id" \in v.loaded THEN v.id ELSE nid,
     nome |-> v.nome,
     preco |-> 0,
     estoque |-> IF "estoque" \in v.loaded THEN v.estoque ELSE 0,
     ativo |-> IF "ativo" \in v.loaded THEN v.ativo ELSE TRUE,
     categoria_id |-> IF "categoria_id" \in v.loaded THEN v.categoria_id ELSE NoId,
     dta_cadastro |-> IF "dta_cadastro" \in v.loaded THEN v.dta_cadastro ELSE t,
     dta_atualizacao |-> IF "dta_atualizacao" \in v.loaded THEN v.dta_atualizacao ELSE t]

\* The INSERT a flush emits: column defaults fill the absent attributes.
InsertCategoria(v, nid, t) ==
    [id |-> IF "id" \in v.loaded THEN v.id ELSE nid,
     nome |-> v.nome,
     dta_cadastro |-> IF "dta_cadastro" \in v.loaded THEN v.dta_cadastro ELSE t,
     dta_atualizacao |-> IF "dta_atualizacao" \in v.loaded THEN v.dta_atualizacao ELSE t]

InsertProduto(v, nid, t) ==
    [id |-> IF "id" \in v.loaded THEN v.id ELSE nid,
     nome |-> v.nome,
     preco |-> IF "preco" \in v.loaded THEN v.preco ELSE 0,
     estoque |-> IF "estoque" \in v.loaded THEN v.estoque ELSE 0,
     ativo |-> IF "ativo" \in v.loaded THEN v.ativo ELSE TRUE,
     categoria_id |-> IF "categoria_id" \in v.loaded THEN v.categoria_id ELSE NoId,
     dta_cadastro |-> IF "dta_cadastro" \in v.loaded THEN v.dta_cadastro ELSE t,
     dta_atualizacao |-> IF "dta_atualizacao" \in v.loaded THEN v.dta_atualizacao ELSE t]

\* --------------------------------------------------- detached entity values
\* What a query hands back: every column loaded; lista_de_produtos loaded only
\* under an eager-load option for Categoria.lista_de_produtos.
AsProduto(row) ==
    [id |-> row.id, nome |-> row.nome, preco |-> row.preco, estoque |-> row.estoque,
     ativo |-> row.ativo, categoria_id |-> row.categoria_id,
     dta_cadastro |-> row.dta_cadastro, dta_atualizacao |-> row.dta_atualizacao,
     loaded |-> ProdCols]

AsProdutos(rows) == [i \in 1..Len(rows) |-> AsProduto(rows[i])]

AsCategoria(row, D, eager) ==
    [id |-> row.id, nome |-> row.nome,
     dta_cadastro |-> row.dta_cadastro, dta_atualizacao |-> row.dta_atualizacao,
     lista_de_produtos |-> IF eager THEN AsProdutos(OwnedBy(D.produtos, row.id)) ELSE <<>>,
     loaded |-> IF eager THEN CatCols \cup {"lista_de_produtos"} ELSE CatCols]

\* ------------------------------------------------------------ Session.merge
\* Session.merge of a Produto value: the row with that primary key is loaded
\* and overwritten attribute by attribute; with no such row (or no key) a new
\* pending instance is made.
MergeProduto(D, v, nid, t) ==
    LET stored == "id" \in v.loaded /\ HasRow(D.produtos, v.id)
    IN  [pending |-> ~stored,
         id |-> IF "id" \in v.loaded THEN v.id ELSE nid,
         row |-> IF stored THEN MergeProdutoCols(RowOf(D.produtos, v.id), v)
                 ELSE InsertProduto(v, nid, t)]

\* Fault for C13: a merge that takes a list that is not loaded for an empty
\* one, making every product of the stored category an orphan.
MergeCategoria_UnloadedIsEmpty(D, v, nid, t) ==
    LET stored == "id" \in v.loaded /\ HasRow(D.categorias, v.id)
        cid == IF "id" \in v.loaded THEN v.id ELSE nid
        before == IF stored THEN OwnedBy(D.produtos, cid) ELSE <<>>
        item(pv) ==
            IF HasRow(D.produtos, pv.id)
            THEN MergeProdutoCols(RowOf(D.produtos, pv.id), pv)
            ELSE InsertProduto(pv, NoId, t)
        coll == IF "lista_de_produtos" \in v.loaded
                THEN [i \in 1..Len(v.lista_de_produtos) |-> item(v.lista_de_produtos[i])]
                ELSE <<>>
    IN  [pending |-> ~stored,
         id |-> cid,
         row |-> IF stored THEN MergeCategoriaCols(RowOf(D.categorias, cid), v)
                 ELSE InsertCategoria(v, nid, t),
         lista |-> coll,
         added |-> IdsOf(coll) \ IdsOf(before),
         orphans |-> IdsOf(before) \ IdsOf(coll)]

\* Session.merge of a Categoria value.  Categoria.lista_de_produtos cascades
\* "all, delete-orphan": when the value carries a loaded list each listed
\* product is merged too and the managed collection is replaced by the merged
\* list, so that a product the stored category owns and the list lacks becomes
\* an orphan.  With the list not loaded the managed collection is the one the
\* lazy load selects (empty for a pending instance).
MergeCategoria(D, v, nid, t) ==
    LET stored == "id" \in v.loaded /\ HasRow(D.categorias, v.id)
        cid == IF "id" \in v.loaded THEN v.id ELSE nid
        before == IF stored THEN OwnedBy(D.produtos, cid) ELSE <<>>
        item(pv) ==
            IF HasRow(D.produtos, pv.id)
            THEN MergeProdutoCols(RowOf(D.produtos, pv.id), pv)
            ELSE InsertProduto(pv, NoId, t)
        coll == IF "lista_de_produtos" \in v.loaded
                THEN [i \in 1..Len(v.lista_de_produtos) |-> item(v.lista_de_produtos[i])]
                ELSE before
    IN  [pending |-> ~stored,
         id |-> cid,
         row |-> IF stored THEN MergeCategoriaCols(RowOf(D.categorias, cid), v)
                 ELSE InsertCategoria(v, nid, t),
         lista |-> coll,
         added |-> IdsOf(coll) \ IdsOf(before),
         orphans |-> IdsOf(before) \ IdsOf(coll)]

\* The flush and commit of a session that holds a merged Produto.
FlushProduto(D, M, t) ==
    IF M.pending THEN DB(D.categorias, Append(D.produtos, M.row))
    ELSE DB(D.categorias,
            ReplaceRow(D.produtos, FlushUpdate(RowOf(D.produtos, M.id), M.row, t)))

\* The managed collection as the flush writes it: a product that joined the
\* collection takes the category's key as its foreign key.
SyncedLista(M) ==
    [i \in 1..Len(M.lista) |->
        IF M.lista[i].id \in M.added THEN [M.lista[i] EXCEPT !.categoria_id = M.id]
        ELSE M.lista[i]]

\* Fault for C26: relationship with cascade "all" and no delete-orphan, a
\* product that left the collection keeps its row and loses its foreign key.
FlushCategoria_NullsOrphans(D, M, t) ==
    LET cs == IF M.pending THEN Append(D.categorias, M.row)
              ELSE ReplaceRow(D.categorias,
                              FlushUpdate(RowOf(D.categorias, M.id), M.row, t))
        upd == [i \in 1..Len(D.produtos) |->
                  IF D.produtos[i].id \in IdsOf(M.lista)
                  THEN FlushUpdate(D.produtos[i], RowOf(SyncedLista(M), D.produtos[i].id), t)
                  ELSE IF D.produtos[i].id \in M.orphans
                  THEN [D.produtos[i] EXCEPT !.categoria_id = NoId, !.dta_atualizacao = t]
                  ELSE D.produtos[i]]
        new == SelectSeq(SyncedLista(M), LAMBDA r : ~HasRow(D.produtos, r.id))
    IN  DB(cs, upd \o new)

\* The flush and commit of a session that holds a merged Categoria: the
\* category is inserted or updated, each listed product updated or inserted,
\* each orphan deleted.
FlushCategoria(D, M, t) ==
    LET cs == IF M.pending THEN Append(D.categorias, M.row)
              ELSE ReplaceRow(D.categorias,
                              FlushUpdate(RowOf(D.categorias, M.id), M.row, t))
        kept == RemoveIds(D.produtos, M.orphans)
        upd == [i \in 1..Len(kept) |->
                  IF kept[i].id \in IdsOf(M.lista)
                  THEN FlushUpdate(kept[i], RowOf(SyncedLista(M), kept[i].id), t)
                  ELSE kept[i]]
        new == SelectSeq(SyncedLista(M), LAMBDA r : ~HasRow(D.produtos, r.id))
    IN  DB(cs, upd \o new)

\* Fault for C9: relationship without cascade, the delete removes the
\* category row alone.
FlushDeleteCategoria_NoCascade(D, M) == DB(RemoveIds(D.categorias, {M.id}), D.produtos)

\* The flush and commit after session.delete of a merged, persistent Categoria:
\* the delete cascades to the persistent members of the managed collection and
\* to the orphans; a listed product that was not stored stays pending and is
\* inserted (SQLite does not enforce the foreign key).
FlushDeleteCategoria(D, M) ==
    LET gone == M.orphans \cup (IdsOf(M.lista) \cap IdsOf(D.produtos))
        new == SelectSeq(SyncedLista(M), LAMBDA r : ~HasRow(D.produtos, r.id))
    IN  DB(RemoveIds(D.categorias, {M.id}), RemoveIds(D.produtos, gone) \o new)

\* ------------------------------------------------- ISQLAlchemyRepository
Repos == {"Categoria", "Produto"}

Table(D, repo) == IF repo = "Categoria" THEN D.categorias ELSE D.produtos

Outcome(e, D, k, p) == [err |-> e, D |-> D, key |-> k, pending |-> p]

\* add: session.add(entity); session.commit().  The INSERT fails on a primary
\* key already stored and on a missing nome (nullable=False); the session then
\* closes without a commit.
add(D, repo, v, nid, t) ==
    LET id == IF "id" \in v.loaded THEN v.id ELSE nid
    IN  IF HasRow(Table(D, repo), id) \/ "nome" \notin v.loaded
        THEN Outcome("IntegrityError", D, id, TRUE)
        ELSE IF repo = "Categoria"
             THEN Outcome("", DB(Append(D.categorias, InsertCategoria(v, nid, t)), D.produtos),
                          id, TRUE)
             ELSE Outcome("", DB(D.categorias, Append(D.produtos, InsertProduto(v, nid, t))),
                          id, TRUE)

\* The INSERTs of session.bulk_save_objects(entities), entity by entity in the
\* one transaction: the first that fails (primary key already in the table,
\* nome missing) raises IntegrityError with the rows of the entities before it
\* written in the transaction.  nids[i] is the uuid4 default of entity i.
RECURSIVE BulkInsert(_, _, _, _, _)
BulkInsert(rows, repo, vs, nids, t) ==
    IF vs = <<>> THEN [err |-> "", rows |-> rows]
    ELSE LET v == Head(vs)
             id == IF "id" \in v.loaded THEN v.id ELSE Head(nids)
         IN  IF HasRow(rows, id) \/ "nome" \notin v.loaded
             THEN [err |-> "IntegrityError", rows |-> rows]
             ELSE BulkInsert(Append(rows, IF repo = "Categoria"
                                          THEN InsertCategoria(v, Head(nids), t)
                                          ELSE InsertProduto(v, Head(nids), t)),
                             repo, Tail(vs), Tail(nids), t)

\* Fault for C11: each INSERT of bulk_add committed on its own, so the rows
\* written before the failing one stay.
bulk_add_KeepsPartial(D, repo, vs, nids, t) ==
    LET w == BulkInsert(Table(D, repo), repo, vs, nids, t)
    IN  Outcome(w.err,
                IF repo = "Categoria" THEN DB(w.rows, D.produtos) ELSE DB(D.categorias, w.rows),
                NoId, TRUE)

\* bulk_add: session.bulk_save_objects(entities); session.commit().  An error
\* leaves the with block before the commit and the session's close rolls the
\* transaction back.
bulk_add(D, repo, vs, nids, t) ==
    LET w == BulkInsert(Table(D, repo), repo, vs, nids, t)
    IN  IF w.err # "" THEN Outcome(w.err, D, NoId, TRUE)
        ELSE Outcome("",
                     IF repo = "Categoria" THEN DB(w.rows, D.produtos)
                     ELSE DB(D.categorias, w.rows),
                     NoId, TRUE)

\* update: session.merge(entity); session.commit().
update(D, repo, v, nid, t) ==
    LET M == IF repo = "Categoria" THEN MergeCategoria(D, v, nid, t)
             ELSE MergeProduto(D, v, nid, t)
    IN  IF M.pending /\ "nome" \notin v.loaded
        THEN Outcome("IntegrityError", D, M.id, M.pending)
        ELSE Outcome("", IF repo = "Categoria" THEN FlushCategoria(D, M, t)
                         ELSE FlushProduto(D, M, t),
                     M.id, M.pending)

\* Fault for C6: delete without session.commit(), the DELETE is rolled back
\* when the session closes.
delete_NoCommit(D, repo, v, nid, t) ==
    LET M == IF repo = "Categoria" THEN MergeCategoria(D, v, nid, t)
             ELSE MergeProduto(D, v, nid, t)
    IN  IF M.pending
        THEN Outcome("InvalidRequestError", D, M.id, TRUE)
        ELSE Outcome("", D, M.id, FALSE)

\* Fault for C7: delete that expunges a pending instance in place of
\* session.delete, so a key no row has is tolerated.
delete_ToleratesPending(D, repo, v, nid, t) ==
    LET M == IF repo = "Categoria" THEN MergeCategoria(D, v, nid, t)
             ELSE MergeProduto(D, v, nid, t)
    IN  IF M.pending
        THEN Outcome("", D, M.id, TRUE)
        ELSE Outcome("", IF repo = "Categoria" THEN FlushDeleteCategoria(D, M)
                         ELSE DB(D.categorias, RemoveIds(D.produtos, {M.id})),
                     M.id, FALSE)

\* delete: session.delete(session.merge(entity)); session.commit().
\* Session.delete refuses an instance that is not persistent, which is what
\* merge returns when no row has the entity's key.
delete(D, repo, v, nid, t) ==
    LET M == IF repo = "Categoria" THEN MergeCategoria(D, v, nid, t)
             ELSE MergeProduto(D, v, nid, t)
    IN  IF M.pending
        THEN Outcome("InvalidRequestError", D, M.id, TRUE)
        ELSE Outcome("", IF repo = "Categoria" THEN FlushDeleteCategoria(D, M)
                         ELSE DB(D.categorias, RemoveIds(D.produtos, {M.id})),
                     M.id, FALSE)

\* Fault for C16: a lookup that raises when no row has the key
\* (.scalar_one() in place of session.get).
get_by_id_RaisesNoResult(D, repo, key, eager) ==
    IF key = <<>> THEN [err |-> "", res |-> None, sessions |-> 0, touched |-> FALSE]
    ELSE [err |-> IF HasRow(Table(D, repo), key[1]) THEN "" ELSE "NoResultFound",
          res |-> IF ~HasRow(Table(D, repo), key[1]) THEN None
                  ELSE IF repo = "Categoria"
                       THEN Some(AsCategoria(RowOf(D.categorias, key[1]), D, eager))
                       ELSE Some(AsProduto(RowOf(D.produtos, key[1]))),
          sessions |-> 1, touched |-> TRUE]

\* get_by_id(*key, load_options): no key part returns None without a session;
\* one key part is session.get.  The result is None or one detached value.
get_by_id(D, repo, key, eager) ==
    IF key = <<>> THEN [err |-> "", res |-> None, sessions |-> 0, touched |-> FALSE]
    ELSE [err |-> "",
          res |-> IF ~HasRow(Table(D, repo), key[1]) THEN None
                  ELSE IF repo = "Categoria"
                       THEN Some(AsCategoria(RowOf(D.categorias, key[1]), D, eager))
                       ELSE Some(AsProduto(RowOf(D.produtos, key[1]))),
          sessions |-> 1, touched |-> TRUE]

\* ------------------------------------------------------------- predicates
\* The ColumnElement[bool] filters the repositories build:
\*   preco.between(lo, hi), estoque <= 0, ativo.is_(False),
\*   ~lista_de_produtos.any().  kind "none" is predicate=None.
NoPred == [kind |-> "none", lo |-> 0, hi |-> 0]
PrecoBetween(lo, hi) == [kind |-> "preco_between", lo |-> lo, hi |-> hi]
EstoqueLe0 == [kind |-> "estoque_le_0", lo |-> 0, hi |-> 0]
AtivoIsFalse == [kind |-> "ativo_is_false", lo |-> 0, hi |-> 0]
SemProdutos == [kind |-> "sem_produtos", lo |-> 0, hi |-> 0]

\* Fault for C21: a price range that leaves its endpoints out.
Satisfies_OpenRange(D, row, pred) ==
    CASE pred.kind = "none" -> TRUE
      [] pred.kind = "preco_between" -> pred.lo < row.preco /\ row.preco < pred.hi
      [] pred.kind = "estoque_le_0" -> row.estoque <= 0
      [] pred.kind = "ativo_is_false" -> row.ativo = FALSE
      [] pred.kind = "sem_produtos" ->
            ~\E i \in 1..Len(D.produtos) : D.produtos[i].categoria_id = row.id

Satisfies(D, row, pred) ==
    CASE pred.kind = "none" -> TRUE
      [] pred.kind = "preco_between" -> pred.lo <= row.preco /\ row.preco <= pred.hi
      [] pred.kind = "estoque_le_0" -> row.estoque <= 0
      [] pred.kind = "ativo_is_false" -> row.ativo = FALSE
      [] pred.kind = "sem_produtos" ->
            ~\E i \in 1..Len(D.produtos) : D.produtos[i].categoria_id = row.id

\* select(model).where(predicate): the rows a statement selects, in rowid order.
Select(D, repo, pred) == SelectSeq(Table(D, repo), LAMBDA r : Satisfies(D, r, pred))

\* The predicates tried on a repository: none, and the filters of its
\* subclass.
Predicates(repo) ==
    IF repo = "Categoria" THEN {NoPred, SemProdutos}
    ELSE {NoPred, PrecoBetween(2000, 4000), PrecoBetween(4000, 2000), EstoqueLe0, AtivoIsFalse}

\* The detached values a statement's rows materialise to.
Materialise(D, repo, rows, eager) ==
    [i \in 1..Len(rows) |->
        IF repo = "Categoria" THEN AsCategoria(rows[i], D, eager) ELSE AsProduto(rows[i])]

\* ------------------------------------------------------------- pagination
\* stmt.offset(offset).limit(page_size) as executed: the rows after the first
\* `offset`, at most `limit` of them.
OffsetLimit(rows, offset, limit) ==
    SubSeq(rows, offset + 1, IF offset + limit < Len(rows) THEN offset + limit ELSE Len(rows))

\* Both page and page_size given; and one of them below 1.
Both(page, size) == page # None /\ size # None

Invalid(page, size) == Both(page, size) /\ (page[1] < 1 \/ size[1] < 1)

\* Fault for C2: _build_statement that validates page alone.
build_statement_ChecksPageOnly(rows, page, page_size) ==
    IF page # None /\ page_size # None
    THEN IF page[1] < 1
         THEN [err |-> "ValueError", rows |-> <<>>]
         ELSE [err |-> "", rows |-> OffsetLimit(rows, (page[1] - 1) * page_size[1], page_size[1])]
    ELSE [err |-> "", rows |-> rows]

\* Fault for C4: _build_statement that validates whichever of page and
\* page_size is given.
build_statement_ValidatesEither(rows, page, page_size) ==
    IF (page # None /\ page[1] < 1) \/ (page_size # None /\ page_size[1] < 1)
    THEN [err |-> "ValueError", rows |-> <<>>]
    ELSE IF page # None /\ page_size # None
         THEN [err |-> "", rows |-> OffsetLimit(rows, (page[1] - 1) * page_size[1], page_size[1])]
         ELSE [err |-> "", rows |-> rows]

\* _build_statement: pagination is applied only when both page and page_size
\* are given, and then both must be >= 1.
\* Returns the error raised ("" for none) and the rows the statement selects.
build_statement(rows, page, page_size) ==
    IF page # None /\ page_size # None
    THEN IF page[1] < 1 \/ page_size[1] < 1
         THEN [err |-> "ValueError", rows |-> <<>>]
         ELSE [err |-> "", rows |-> OffsetLimit(rows, (page[1] - 1) * page_size[1], page_size[1])]
    ELSE [err |-> "", rows |-> rows]

Result(e, r, s, q) == [err |-> e, res |-> r, sessions |-> s, touched |-> q]

\* The load_options a query is given: none, or one option for the
\* relationship of the model (Categoria.lista_de_produtos, a collection;
\* Produto.categoria, a scalar), either selectinload or joinedload.
LoadOptions == {"none", "selectinload", "joinedload"}

\* session.execute(stmt).scalars().all(): the result of a statement with a
\* joined eager load against a collection raises InvalidRequestError ("The
\* unique() method must be invoked on this Result") on its first row, .unique()
\* never being called; with no row nothing is raised.  .first() takes the
\* first row without the uniqueness filter and session.get has no Result.
RequiresUnique(repo, load_options, rows) ==
    repo = "Categoria" /\ load_options = "joinedload" /\ rows # <<>>

\* Fault for C18: get_all that takes load_options alone and never paginates.
get_all_Unpaginated(D, repo, load_options, page, page_size) ==
    LET rows == Select(D, repo, NoPred)
    IN  IF RequiresUnique(repo, load_options, rows)
        THEN Result("InvalidRequestError", <<>>, 1, TRUE)
        ELSE Result("", Materialise(D, repo, rows, load_options # "none"), 1, TRUE)

\* get_all: the session is opened first, then the statement built and executed.
get_all(D, repo, load_options, page, page_size) ==
    LET stmt == build_statement(Select(D, repo, NoPred), page, page_size)
    IN  IF stmt.err # "" THEN Result(stmt.err, <<>>, 1, FALSE)
        ELSE IF RequiresUnique(repo, load_options, stmt.rows)
        THEN Result("InvalidRequestError", <<>>, 1, TRUE)
        ELSE Result("", Materialise(D, repo, stmt.rows, load_options # "none"), 1, TRUE)

\* get: the statement is built before the session is opened.
get(D, repo, pred, load_options, page, page_size) ==
    LET stmt == build_statement(Select(D, repo, pred), page, page_size)
    IN  IF stmt.err # "" THEN Result(stmt.err, <<>>, 0, FALSE)
        ELSE IF RequiresUnique(repo, load_options, stmt.rows)
        THEN Result("InvalidRequestError", <<>>, 1, TRUE)
        ELSE Result("", Materialise(D, repo, stmt.rows, load_options # "none"), 1, TRUE)

\* Fault for C20: get_first that never applies the predicate.
get_first_IgnoresPredicate(D, repo, pred, load_options) ==
    LET rows == Table(D, repo)
    IN  Result("", IF rows = <<>> THEN None
                   ELSE Materialise(D, repo, <<rows[1]>>, load_options # "none"), 1, TRUE)

\* get_first: get without pagination, .scalars().first().
get_first(D, repo, pred, load_options) ==
    LET rows == Select(D, repo, pred)
    IN  Result("", IF rows = <<>> THEN None
                   ELSE Materialise(D, repo, <<rows[1]>>, load_options # "none"), 1, TRUE)

\* Fault for C19: count that never applies the predicate.
count_IgnoresPredicate(D, repo, pred) == Result("", Some(Len(Table(D, repo))), 1, TRUE)

\* count: select(func.count()).select_from(model).where(predicate), read with
\* scalar_one(): the number of rows of the table the predicate holds of.
count(D, repo, pred) ==
    Result("", Some(Cardinality({i \in 1..Len(Table(D, repo)) :
                                    Satisfies(D, Table(D, repo)[i], pred)})), 1, TRUE)

\* ------------------------------------------------------ ProdutoRepository
produtos_por_preco(D, preco_minimo, preco_maximo, page, page_size) ==
    get(D, "Produto", PrecoBetween(preco_minimo, preco_maximo), "none", page, page_size)

produtos_sem_estoque(D, page, page_size) ==
    get(D, "Produto", EstoqueLe0, "none", page, page_size)

produtos_inativos(D, page, page_size) ==
    get(D, "Produto", AtivoIsFalse, "none", page, page_size)

\* ----------------------------------------------------- CategoriaRepository
\* Fault for C22: the shortcut without its filter.
get_categorias_sem_produtos_Unfiltered(D, page, page_size) ==
    get(D, "Categoria", NoPred, "none", page, page_size)

get_categorias_sem_produtos(D, page, page_size) ==
    get(D, "Categoria", SemProdutos, "none", page, page_size)

\* lista_de_produtos[start:end] of get_produtos.
Slice(lista, start, end) ==
    SubSeq(lista, start + 1, IF end < Len(lista) THEN end ELSE Len(lista))

\* Fault for C1: get_produtos with end = page_size in place of
\* start + page_size.
PaginateLista_EndIsSize(lista, page, page_size, s, q) ==
    IF page # None /\ page_size # None
    THEN IF page[1] < 1 \/ page_size[1] < 1
         THEN Result("ValueError", <<>>, s, q)
         ELSE Result("", Slice(lista, (page[1] - 1) * page_size[1], page_size[1]), s, q)
    ELSE Result("", lista, s, q)

\* The tail of get_produtos: validation and slicing of the list already read.
PaginateLista(lista, page, page_size, s, q) ==
    IF page # None /\ page_size # None
    THEN IF page[1] < 1 \/ page_size[1] < 1
         THEN Result("ValueError", <<>>, s, q)
         ELSE Result("", Slice(lista, (page[1] - 1) * page_size[1],
                               (page[1] - 1) * page_size[1] + page_size[1]), s, q)
    ELSE Result("", lista, s, q)

\* Fault for C17: get_produtos that validates page and page_size before it
\* looks at the type of categoria_info.
get_produtos_ValidatesFirst(D, categoria_info, page, page_size, t) ==
    IF Invalid(page, page_size) THEN Result("ValueError", <<>>, 0, FALSE)
    ELSE CASE categoria_info.kind = "Categoria" ->
                 PaginateLista(AsProdutos(MergeCategoria(D, categoria_info.v, NoId, t).lista),
                               page, page_size, 1, "id" \in categoria_info.v.loaded)
           [] categoria_info.kind = "UUID" ->
                 LET categoria == get_by_id(D, "Categoria", <<categoria_info.v.id>>, TRUE)
                 IN  IF categoria.res = None THEN Result("", <<>>, 1, TRUE)
                     ELSE PaginateLista(categoria.res[1].lista_de_produtos,
                                        page, page_size, 1, TRUE)
           [] OTHER -> Result("TypeError", <<>>, 0, FALSE)

\* get_produtos(categoria_info, page, page_size).  categoria_info is a
\* Categoria value (kind "Categoria": merged into a session, its collection
\* read, nothing committed), a UUID (kind "UUID", the key being v.id:
\* get_by_id with joinedload, [] at once when no category has that key) or
\* anything else (TypeError).
\* The merge queries storage when the value has a key.
get_produtos(D, categoria_info, page, page_size, t) ==
    CASE categoria_info.kind = "Categoria" ->
            PaginateLista(AsProdutos(MergeCategoria(D, categoria_info.v, NoId, t).lista),
                          page, page_size, 1, "id" \in categoria_info.v.loaded)
      [] categoria_info.kind = "UUID" ->
            LET categoria == get_by_id(D, "Categoria", <<categoria_info.v.id>>, TRUE)
            IN  IF categoria.res = None THEN Result("", <<>>, 1, TRUE)
                ELSE PaginateLista(categoria.res[1].lista_de_produtos, page, page_size, 1, TRUE)
      [] OTHER -> Result("TypeError", <<>>, 0, FALSE)

\* Fault for C24: the with block of get_produtos ending in session.commit().
CloseSession_Commits(D, flushed) == flushed

\* The end of a with Session block in which commit was never called: close()
\* rolls back whatever the session flushed.
CloseSession(D, flushed) == D

\* The stored rows a get_produtos call leaves.  Given a Categoria, the merge
\* makes the managed category and the products of a loaded list dirty or
\* pending, a read of the collection autoflushes them inside the session's
\* transaction, and the block ends without a commit; the other branches write
\* nothing.
get_produtos_leaves(D, categoria_info, t) ==
    IF categoria_info.kind = "Categoria"
    THEN CloseSession(D, FlushCategoria(D, MergeCategoria(D, categoria_info.v, NoId, t), t))
    ELSE D

\* ------------------------------------------------- the values callers pass
\* A transient instance as a constructor call makes it: Categoria(id=i, nome=n)
\* with either keyword left out (NoId, "": the attribute is absent).
NewCategoria(i, n) ==
    [id |-> i, nome |-> n, dta_cadastro |-> 0, dta_atualizacao |-> 0,
     lista_de_produtos |-> <<>>,
     loaded |-> (IF i # NoId THEN {"id"} ELSE {}) \cup (IF n # "" THEN {"nome"} ELSE {})]

\* Produto(id=i, nome=n, preco=p, categoria_id=c); given lists the keywords
\* passed among preco and categoria_id.
NewProduto(i, n, p, c, given) ==
    [id |-> i, nome |-> n, preco |-> p, estoque |-> 0, ativo |-> TRUE,
     categoria_id |-> c, dta_cadastro |-> 0, dta_atualizacao |-> 0,
     loaded |-> (IF i # NoId THEN {"id"} ELSE {}) \cup (IF n # "" THEN {"nome"} ELSE {})
                \cup given]

TransientCategorias == {NewCategoria(i, n) : i \in CatIds \cup {NoId}, n \in Nomes \cup {""}}

TransientProdutos ==
    {NewProduto(i, "A", 0, NoId, {}) : i \in ProdIds \cup {NoId}}
    \cup {NewProduto(i, "A", 2500, c, {"preco", "categoria_id"}) :
            i \in ProdIds \cup {NoId}, c \in CatIds}
    \cup {NewProduto(NoId, "", 0, NoId, {})}

\* Detached values: what some earlier query returned, so possibly older than
\* storage.  T is the set of timestamps a value can carry.
DetachedProdutos(T) ==
    {AsProduto(r) : r \in {x \in [id : ProdIds, nome : {"A"}, preco : Precos, estoque : {0},
                                  ativo : {TRUE}, categoria_id : CatIds \cup {NoId},
                                  dta_cadastro : T, dta_atualizacao : T] :
                           x.dta_cadastro <= x.dta_atualizacao}}

\* The lists a category cid can have been loaded with: products whose foreign
\* key was cid, no product twice.
Listas(cid, T) ==
    UNION {{l \in [1..n -> {p \in DetachedProdutos(T) : p.categoria_id = cid}] :
              \A i, j \in 1..n : i # j => l[i].id # l[j].id} : n \in 0..NumProds}

DetachedCategorias(T) ==
    {v \in {[id |-> i, nome |-> n, dta_cadastro |-> c, dta_atualizacao |-> a,
             lista_de_produtos |-> <<>>, loaded |-> CatCols] :
               i \in CatIds, n \in Nomes, c \in T, a \in T} :
        v.dta_cadastro <= v.dta_atualizacao}
    \cup UNION {{[id |-> i, nome |-> n, dta_cadastro |-> 0, dta_atualizacao |-> 0,
                  lista_de_produtos |-> l, loaded |-> CatCols \cup {"lista_de_produtos"}] :
                    n \in Nomes, l \in Listas(i, {0})} : i \in CatIds}

Entities(repo, T) ==
    IF repo = "Categoria" THEN TransientCategorias \cup DetachedCategorias(T)
    ELSE TransientProdutos \cup DetachedProdutos(T)

Transients(repo) == IF repo = "Categoria" THEN TransientCategorias ELSE TransientProdutos

\* default=uuid.uuid4: a key no row has and no foreign key mentions.
FreshIds(D, repo, v) ==
    IF "id" \in v.loaded THEN {NoId}
    ELSE IF repo = "Categoria"
         THEN CatIds \ (IdsOf(D.categorias) \cup {D.produtos[i].categoria_id : i \in 1..Len(D.produtos)})
         ELSE ProdIds \ IdsOf(D.produtos)

\* The entities bulk_add is tried with: transient values, with or without a
\* key, with or without nome; the lists of up to MaxBulk of them.
BulkEntities(repo) ==
    IF repo = "Categoria"
    THEN {NewCategoria(NoId, "A"), NewCategoria(1, "A"), NewCategoria(NoId, "")}
    ELSE {NewProduto(NoId, "A", 0, NoId, {}), NewProduto(1, "A", 0, NoId, {}),
          NewProduto(NoId, "", 0, NoId, {})}

BulkLists(repo) == UNION {[1..n -> BulkEntities(repo)] : n \in 0..MaxBulk}

\* The uuid4 defaults of a list: a fresh key for each entity without one, no
\* key twice, none a key the list gives.
BulkIds(D, repo, vs) ==
    {nids \in [1..Len(vs) -> {NoId} \cup (IF repo = "Categoria" THEN CatIds ELSE ProdIds)] :
        /\ \A i \in 1..Len(vs) :
               IF "id" \in vs[i].loaded THEN nids[i] = NoId
               ELSE nids[i] \in FreshIds(D, repo, vs[i]) \ {vs[j].id : j \in 1..Len(vs)}
        /\ \A i, j \in 1..Len(vs) : (i # j /\ nids[i] # NoId) => nids[i] # nids[j]}

\* --------------------------------------------------------- the state machine
\* last: the repository call that completed last and how it ended.
\* ent is the entity an add or update was given (the list, for bulk_add), key the primary key the call
\* was about, res what a query returned (for add, update and delete: the row
\* counts of the two tables when the call began).
Call(op, repo, page, size, err, res, key, pending, sessions, touched, ent) ==
    [op |-> op, repo |-> repo, page |-> page, size |-> size, err |-> err, res |-> res,
     key |-> key, pending |-> pending, sessions |-> sessions, touched |-> touched,
     ent |-> ent]

\* A query call: repo names the repository, or for get_produtos the shape of
\* its categoria_info argument.
Query(op, repo, page, size, r) ==
    Call(op, repo, page, size, r.err, r.res, NoId, FALSE, r.sessions, r.touched, None)

Storage == DB(categorias, produtos)

Init ==
    /\ categorias = <<>>
    /\ produtos = <<>>
    /\ now = 0
    /\ last = Call("init", "", None, None, "", None, NoId, FALSE, 0, FALSE, None)
    /\ txn = <<>>

Commit(o, op, repo, ent) ==
    /\ categorias' = o.D.categorias
    /\ produtos' = o.D.produtos
    /\ last' = Call(op, repo, None, None, o.err, <<Len(categorias), Len(produtos)>>,
                     o.key, o.pending, 1, TRUE, ent)
    /\ UNCHANGED <<now, txn>>

AddStep(repo, v) ==
    \E nid \in FreshIds(Storage, repo, v) : Commit(add(Storage, repo, v, nid, now), "add", repo, Some(v))

UpdateStep(repo, v) ==
    \E nid \in FreshIds(Storage, repo, v) :
        Commit(update(Storage, repo, v, nid, now), "update", repo, Some(v))

DeleteStep(repo, v) ==
    Commit(delete(Storage, repo, v, NoId, now), "delete", repo, None)

GetByIdStep(repo, key, eager) ==
    LET r == get_by_id(Storage, repo, key, eager)
    IN  /\ last' = Call("get_by_id", repo, None, None, r.err, r.res,
                        IF key = <<>> THEN NoId ELSE key[1], FALSE, r.sessions, r.touched, None)
        /\ UNCHANGED <<categorias, produtos, now, txn>>

CountStep(repo, pred) ==
    LET r == count(Storage, repo, pred)
    IN  /\ last' = Call("count", repo, None, None, r.err, r.res, NoId, FALSE,
                        r.sessions, r.touched, Some(pred))
        /\ UNCHANGED <<categorias, produtos, now, txn>>

BulkAddStep(repo, vs) ==
    \E nids \in BulkIds(Storage, repo, vs) :
        Commit(bulk_add(Storage, repo, vs, nids, now), "bulk_add", repo, Some(vs))

Add == \E repo \in Repos : \E v \in Transients(repo) : AddStep(repo, v)

BulkAdd == \E repo \in Repos : \E vs \in BulkLists(repo) : BulkAddStep(repo, vs)

Update == \E repo \in Repos : \E v \in Entities(repo, 0..now) : UpdateStep(repo, v)

Delete == \E repo \in Repos : \E v \in Entities(repo, 0..now) : DeleteStep(repo, v)

GetById ==
    \E repo \in Repos :
        \/ GetByIdStep(repo, <<>>, FALSE)
        \/ \E id \in (IF repo = "Categoria" THEN CatIds ELSE ProdIds) :
              \E eager \in (IF repo = "Categoria" THEN BOOLEAN ELSE {FALSE}) :
                  GetByIdStep(repo, <<id>>, eager)

Count == \E repo \in Repos : \E pred \in Predicates(repo) : CountStep(repo, pred)

Next == Add \/ BulkAdd \/ Update \/ Delete \/ GetById \/ Count

Spec == Init /\ [][Next]_vars

\* ------------------------------------------------ the paginated queries
\* Stored product i of the query machine: prices 1000, 2500, 4000, ...,
\* stock 5, 0, -5, ..., every second one inactive.
QProduto(i, c) ==
    [id |-> i, nome |-> "A", preco |-> 1500 * i - 500, estoque |-> 10 - 5 * i,
     ativo |-> (i % 2 = 1), categoria_id |-> c, dta_cadastro |-> 0, dta_atualizacao |-> 0]

QCategoria(i) == [id |-> i, nome |-> "A", dta_cadastro |-> 0, dta_atualizacao |-> 0]

\* The stored tables the query machine starts from: the first n products, each
\* in any category or none, and the first m categories.
QProdutos ==
    UNION {{[i \in 1..n |-> QProduto(i, f[i])] : f \in [1..n -> CatIds \cup {NoId}]} :
             n \in 0..MaxRows}

QCategorias == {[i \in 1..m |-> QCategoria(i)] : m \in 0..NumCats}

PageVals == {None} \cup {Some(n) : n \in 0..MaxPage}

\* The categoria_info arguments tried: every UUID, the stored categories as a
\* query returned them (list loaded or not), detached values that may be older
\* than storage, transient values, and a value of another type.
CategoriaInfo(kind, v) == [kind |-> kind, v |-> v]

CategoriaInfos(D) ==
    {CategoriaInfo("UUID", NewCategoria(i, "")) : i \in CatIds}
    \cup {CategoriaInfo("Categoria", AsCategoria(D.categorias[i], D, e)) :
            i \in 1..Len(D.categorias), e \in BOOLEAN}
    \cup {CategoriaInfo("Categoria", v) :
            v \in {x \in DetachedCategorias({0}) :
                     /\ x.nome = "B"
                     /\ \A k \in 1..Len(x.lista_de_produtos) :
                            x.lista_de_produtos[k].preco = 0}}
    \cup {CategoriaInfo("Categoria", NewCategoria(NoId, "A"))}
    \cup {CategoriaInfo("str", NewCategoria(NoId, ""))}

QInit ==
    /\ categorias \in QCategorias
    /\ produtos \in QProdutos
    /\ now = 0
    /\ last = Call("init", "", None, None, "", None, NoId, FALSE, 0, FALSE, None)
    /\ txn = <<>>

Answer(op, repo, page, size, r) ==
    /\ last' = Query(op, repo, page, size, r)
    /\ UNCHANGED <<categorias, produtos, now, txn>>

GetAll ==
    \E repo \in Repos, page \in PageVals, page_size \in PageVals :
        \E load_options \in (IF repo = "Categoria" THEN LoadOptions ELSE {"none"}) :
            Answer("get_all", repo, page, page_size,
                   get_all(Storage, repo, load_options, page, page_size))

Get ==
    \E repo \in Repos, page \in PageVals, page_size \in PageVals :
        \E load_options \in (IF repo = "Categoria" THEN LoadOptions ELSE {"none"}) :
            Answer("get", repo, page, page_size,
                   get(Storage, repo, NoPred, load_options, page, page_size))

GetFirst ==
    \E repo \in Repos :
        \E pred \in Predicates(repo), load_options \in LoadOptions :
            LET r == get_first(Storage, repo, pred, load_options)
            IN  /\ last' = Call("get_first", repo, None, None, r.err, r.res, NoId, FALSE,
                                r.sessions, r.touched, Some(pred))
                /\ UNCHANGED <<categorias, produtos, now, txn>>

ProdutosPorPreco ==
    \E page \in PageVals, page_size \in PageVals :
        \E lim \in {<<2000, 4000>>, <<1000, 2500>>, <<4000, 2000>>} :
            Answer("produtos_por_preco", "Produto", page, page_size,
                   produtos_por_preco(Storage, lim[1], lim[2], page, page_size))

ProdutosSemEstoque ==
    \E page \in PageVals, page_size \in PageVals :
        Answer("produtos_sem_estoque", "Produto", page, page_size,
               produtos_sem_estoque(Storage, page, page_size))

ProdutosInativos ==
    \E page \in PageVals, page_size \in PageVals :
        Answer("produtos_inativos", "Produto", page, page_size,
               produtos_inativos(Storage, page, page_size))

GetCategoriasSemProdutos ==
    \E page \in PageVals, page_size \in PageVals :
        Answer("get_categorias_sem_produtos", "Categoria", page, page_size,
               get_categorias_sem_produtos(Storage, page, page_size))

GetProdutos ==
    \E page \in PageVals, page_size \in PageVals :
        \E categoria_info \in CategoriaInfos(Storage) :
            LET r == get_produtos(Storage, categoria_info, page, page_size, now)
                left == get_produtos_leaves(Storage, categoria_info, now)
            IN  /\ last' = Call("get_produtos", categoria_info.kind, page, page_size,
                                r.err, r.res, categoria_info.v.id, FALSE,
                                r.sessions, r.touched, Some(categoria_info.v))
                /\ categorias' = left.categorias
                /\ produtos' = left.produtos
                /\ UNCHANGED <<now, txn>>

QNext ==
    \/ GetAll
    \/ Get
    \/ GetFirst
    \/ GetById
    \/ Count
    \/ ProdutosPorPreco
    \/ ProdutosSemEstoque
    \/ ProdutosInativos
    \/ GetCategoriasSemProdutos
    \/ GetProdutos

SpecQuery == QInit /\ [][QNext]_vars

\* ------------------------------------------- two callers racing on update
\* update is session.merge(entity) then session.commit(), each its own
\* statement on its own connection: the SELECT of one caller's merge and the
\* UPDATE of its commit can have the other caller's statements between them.
Callers == {1, 2}

RaceKey == 1

Cols(repo) == IF repo = "Categoria" THEN CatCols ELSE ProdCols

\* Fault for C10: an UPDATE that sets every column of the managed row.
FlushUpdateOver_AllColumns(cur, snap, merged, t) ==
    IF merged = snap THEN cur
    ELSE [c \in DOMAIN cur |->
            IF c = "dta_atualizacao" /\ merged[c] = snap[c] THEN t ELSE merged[c]]

\* The UPDATE a flush emits for a managed row it loaded as snap and holds as
\* merged, on the row cur now stored: SET names the columns whose value differs
\* from the loaded one, dta_atualizacao takes onupdate=func.now() when it is not
\* among them, and no statement is emitted when no column differs.
FlushUpdateOver(cur, snap, merged, t) ==
    LET changed == {c \in DOMAIN snap : merged[c] # snap[c]}
    IN  IF changed = {} THEN cur
        ELSE [c \in DOMAIN cur |->
                IF c \in changed THEN merged[c]
                ELSE IF c = "dta_atualizacao" THEN t
                ELSE cur[c]]

\* The entities the two callers pass: transient or detached values of the one
\* key, without a loaded product list.
RaceEntities(repo) ==
    {v \in Entities(repo, {0}) :
        "id" \in v.loaded /\ v.id = RaceKey /\ "lista_de_produtos" \notin v.loaded}

Idle ==
    [pc |-> "idle", repo |-> "", ent |-> None, pending |-> FALSE,
     snap |-> None, row |-> None, before |-> None, seq |-> 0]

Committed == Cardinality({c \in Callers : txn[c].pc \in {"done", "failed"}})

RInit ==
    /\ categorias \in {<<>>, <<QCategoria(RaceKey)>>}
    /\ produtos \in {<<>>, <<[QProduto(RaceKey, NoId) EXCEPT !.preco = 0]>>}
    /\ now = 0
    /\ last = Call("init", "", None, None, "", None, NoId, FALSE, 0, FALSE, None)
    /\ txn = [c \in Callers |-> Idle]

\* session.merge(entity) of caller c: the row is read and the entity's
\* attributes copied over it, in the session.
RaceMerge(c) ==
    /\ txn[c].pc = "idle"
    /\ \E repo \in Repos : \E v \in RaceEntities(repo) :
          LET M == IF repo = "Categoria" THEN MergeCategoria(Storage, v, NoId, now)
                   ELSE MergeProduto(Storage, v, NoId, now)
          IN  txn' = [txn EXCEPT ![c] =
                        [pc |-> "merged", repo |-> repo, ent |-> Some(v),
                         pending |-> M.pending,
                         snap |-> IF M.pending THEN None
                                  ELSE Some(RowOf(Table(Storage, repo), RaceKey)),
                         row |-> Some(M.row), before |-> None, seq |-> 0]]
    /\ UNCHANGED <<categorias, produtos, now, last>>

\* session.commit() of caller c: the flush emits the INSERT of a pending
\* instance (IntegrityError when the key is stored by now, or nome is missing)
\* or the UPDATE of a persistent one, and the transaction commits.
RaceCommit(c) ==
    /\ txn[c].pc = "merged"
    /\ LET repo == txn[c].repo
           v == txn[c].ent[1]
           rows == Table(Storage, repo)
           fails == txn[c].pending /\ (HasRow(rows, RaceKey) \/ "nome" \notin v.loaded)
           written ==
               IF txn[c].pending
               THEN Append(rows, IF repo = "Categoria" THEN InsertCategoria(v, NoId, now)
                                 ELSE InsertProduto(v, NoId, now))
               ELSE ReplaceRow(rows, FlushUpdateOver(RowOf(rows, RaceKey), txn[c].snap[1],
                                                     txn[c].row[1], now))
           after == IF fails THEN rows ELSE written
       IN  /\ categorias' = IF repo = "Categoria" THEN after ELSE categorias
           /\ produtos' = IF repo = "Produto" THEN after ELSE produtos
           /\ txn' = [txn EXCEPT ![c].pc = IF fails THEN "failed" ELSE "done",
                                 ![c].before = IF HasRow(rows, RaceKey)
                                               THEN Some(RowOf(rows, RaceKey)) ELSE None,
                                 ![c].seq = Committed + 1]
           /\ last' = Call("update", repo, None, None,
                           IF fails THEN "IntegrityError" ELSE "",
                           <<Len(categorias), Len(produtos)>>, RaceKey, txn[c].pending,
                           1, TRUE, Some(v))
    /\ UNCHANGED now

\* func.now() moves on between statements.
Tick ==
    /\ now < MaxClock
    /\ now' = now + 1
    /\ UNCHANGED <<categorias, produtos, last, txn>>

RNext == (\E c \in Callers : RaceMerge(c)) \/ (\E c \in Callers : RaceCommit(c)) \/ Tick

SpecRace == RInit /\ [][RNext]_vars

\* ------------------------------------------------- timestamps over time
\* dta_cadastro and dta_atualizacao are mapped columns like any other: the
\* constructor takes them as keywords and an instance can be assigned them;
\* server_default, default and onupdate apply only to a column the INSERT or
\* UPDATE is not given a value for.  Stamps are the readings of the clock and
\* one later than any of them.
Stamps == 0..(MaxClock + 1)

\* The instance v with the timestamp column col set to s by the caller.
Stamped(v, col, s) == [v EXCEPT ![col] = s, !.loaded = @ \cup {col}]

\* The entities of the one key ClockKey the calls are tried with: transient
\* values with and without a timestamp keyword, and detached values that
\* some earlier query returned at a time in T.
ClockKey == 1

ClockTransients(repo) ==
    LET plain == IF repo = "Categoria"
                 THEN {NewCategoria(ClockKey, "A")}
                 ELSE {NewProduto(ClockKey, "A", p, NoId, {"preco"}) : p \in Precos}
    IN  plain \cup {Stamped(v, col, s) :
                      v \in plain, col \in {"dta_cadastro", "dta_atualizacao"}, s \in Stamps}

ClockEntities(repo, T) ==
    ClockTransients(repo)
    \cup {v \in Entities(repo, T) :
            /\ v.loaded = (IF repo = "Categoria" THEN CatCols ELSE ProdCols)
            /\ v.id = ClockKey
            /\ repo = "Produto" => v.categoria_id = NoId}

ClockAdd == \E repo \in Repos : \E v \in ClockTransients(repo) : AddStep(repo, v)

ClockUpdate == \E repo \in Repos : \E v \in ClockEntities(repo, 0..now) : UpdateStep(repo, v)

ClockDelete == \E repo \in Repos : \E v \in ClockEntities(repo, 0..now) : DeleteStep(repo, v)

CNext == ClockAdd \/ ClockUpdate \/ ClockDelete \/ Tick

SpecClock == Init /\ [][CNext]_vars

\* ------------------------------------------ the session scope of each call
\* The statements of each public method, in order, as the source has them:
\*   open     with Session(self._engine) as session:      (enters the block)
\*   close    the end of the with block                   (session.close())
\*   build    self._build_statement(...)                  (may raise ValueError)
\*   validate the page / page_size check of get_produtos  (may raise ValueError)
\*   execute  session.execute / session.get / session.merge / lazy load
\*   write    session.add / session.bulk_save_objects
\*   delete   session.delete of the merged instance
\*   commit   session.commit()
\*   absent   if not key: return None  /  if not categoria: return []
\*   raise    raise TypeError(...)
\* a is the call's arguments: page, page_size, whether a key (or a categoria
\* with that key) is given and stored, and the shape of categoria_info.
SessionOps ==
    {"get_all", "get", "get_first", "get_by_id", "add", "bulk_add", "update", "delete",
     "count", "produtos_por_preco", "produtos_sem_estoque", "produtos_inativos",
     "get_categorias_sem_produtos", "get_produtos"}

ProgramGetProdutos(a) ==
    CASE a.kind = "Categoria" -> <<"open", "execute", "execute", "close", "validate">>
      [] a.kind = "UUID" -> <<"open", "execute", "close", "absent", "validate">>
      [] OTHER -> <<"raise">>

Program(op, a) ==
    CASE op = "get_all" -> <<"open", "build", "execute", "close">>
      [] op \in {"get", "get_first", "produtos_por_preco", "produtos_sem_estoque",
                 "produtos_inativos", "get_categorias_sem_produtos"} ->
            <<"build", "open", "execute", "close">>
      [] op = "get_by_id" -> <<"absent", "open", "execute", "close">>
      [] op \in {"add", "bulk_add"} -> <<"open", "write", "commit", "close">>
      [] op = "update" -> <<"open", "execute", "commit", "close">>
      [] op = "delete" -> <<"open", "execute", "delete", "commit", "close">>
      [] op = "count" -> <<"open", "execute", "close">>
      [] op = "get_produtos" -> ProgramGetProdutos(a)

\* How a statement can end: "" (it completes), "return" (the method returns
\* there) or the error it raises.  Any statement that reaches the database can
\* fail with the driver's OperationalError.
Outcomes(ins, a) ==
    CASE ins \in {"open", "close"} -> {""}
      [] ins \in {"build", "validate"} ->
            IF Invalid(a.page, a.size) THEN {"ValueError"} ELSE {""}
      [] ins = "execute" -> {"", "OperationalError"}
      [] ins = "write" -> {"", "IntegrityError", "OperationalError"}
      [] ins = "commit" -> {"", "IntegrityError", "OperationalError"}
      [] ins = "delete" -> IF a.stored THEN {""} ELSE {"InvalidRequestError"}
      [] ins = "absent" -> IF a.stored THEN {""} ELSE {"return"}
      [] ins = "raise" -> {"TypeError"}

\* Fault for C12: the session opened and closed by plain calls in place of
\* the with block, so an exception passes the close by.
Unwound_NoExit(open) == open

\* An exception leaving a with block runs Session.__exit__, which closes the
\* session; outside any block there is nothing to close.
Unwound(open) == IF open > 0 THEN open - 1 ELSE 0

SessionArgs ==
    [page : PageVals, size : PageVals, kind : {"Categoria", "UUID", "str"}, stored : BOOLEAN]

\* The arguments that matter to op: get_first takes no pagination, only
\* get_produtos looks at the shape of its argument.
ArgsOf(op) ==
    {a \in SessionArgs :
        /\ (op \in {"get_first", "get_by_id", "add", "bulk_add", "update", "delete", "count"})
              => (a.page = None /\ a.size = None)
        /\ (op # "get_produtos") => a.kind = "Categoria"
        /\ (op \notin {"get_by_id", "delete", "get_produtos"}) => a.stored}

Finished(t) == t.pc > Len(t.prog)

SInit ==
    /\ categorias = <<>>
    /\ produtos = <<>>
    /\ now = 0
    /\ last = Call("init", "", None, None, "", None, NoId, FALSE, 0, FALSE, None)
    /\ txn = [op |-> "", args |-> CHOOSE a \in ArgsOf("count") : TRUE, prog |-> <<>>,
              pc |-> 1, open |-> 0, opened |-> 0, err |-> ""]

\* A caller invokes a public method once the previous call has finished.
Invoke ==
    /\ Finished(txn)
    /\ \E op \in SessionOps : \E a \in ArgsOf(op) :
          txn' = [op |-> op, args |-> a, prog |-> Program(op, a),
                  pc |-> 1, open |-> 0, opened |-> 0, err |-> ""]
    /\ UNCHANGED <<categorias, produtos, now, last>>

\* The statement at pc completes, or the method returns at it.
StepOk ==
    /\ ~Finished(txn)
    /\ LET ins == txn.prog[txn.pc]
       IN  \E o \in Outcomes(ins, txn.args) \cap {"", "return"} :
              txn' = [txn EXCEPT
                        !.pc = IF o = "return" THEN Len(txn.prog) + 1 ELSE txn.pc + 1,
                        !.open = IF ins = "open" THEN txn.open + 1
                                 ELSE IF ins = "close" THEN txn.open - 1
                                 ELSE txn.open,
                        !.opened = IF ins = "open" THEN txn.opened + 1 ELSE txn.opened]
    /\ UNCHANGED <<categorias, produtos, now, last>>

\* The statement at pc raises: the exception leaves the method, through the
\* with block when the statement is inside one.
StepRaise ==
    /\ ~Finished(txn)
    /\ \E e \in Outcomes(txn.prog[txn.pc], txn.args) \ {"", "return"} :
          txn' = [txn EXCEPT !.pc = Len(txn.prog) + 1,
                             !.open = Unwound(txn.open),
                             !.err = e]
    /\ UNCHANGED <<categorias, produtos, now, last>>

SNext == Invoke \/ StepOk \/ StepRaise

SpecSession == SInit /\ [][SNext]_vars

\* ===================================================================== claims
StorageNext == DB(categorias', produtos')

\* The columns an entity value and a row are compared on: every column but
\* dta_atualizacao, which the UPDATE itself resets.
Comparable(repo) == (IF repo = "Categoria" THEN CatCols ELSE ProdCols) \ {"dta_atualizacao"}

\* The paginated calls of the two repositories, as values: the method, the
\* repository, the predicate and, for get_produtos, the categoria_info given.
PagedCall(op, repo, load_options, pred, info) ==
    [op |-> op, repo |-> repo, load_options |-> load_options, pred |-> pred, info |-> info]

PagedCalls(D) ==
    {PagedCall("get_all", repo, load_options, NoPred,
               CategoriaInfo("", NewCategoria(NoId, ""))) :
        repo \in Repos, load_options \in {"none", "selectinload"}}
    \cup {PagedCall("get", repo, "none", NoPred, CategoriaInfo("", NewCategoria(NoId, ""))) :
            repo \in Repos}
    \cup {PagedCall(op, "Produto", "none", NoPred, CategoriaInfo("", NewCategoria(NoId, ""))) :
            op \in {"produtos_sem_estoque", "produtos_inativos"}}
    \cup {PagedCall("produtos_por_preco", "Produto", "none", PrecoBetween(lim[1], lim[2]),
                    CategoriaInfo("", NewCategoria(NoId, ""))) :
            lim \in {<<2000, 4000>>, <<1000, 2500>>, <<4000, 2000>>}}
    \cup {PagedCall("get_categorias_sem_produtos", "Categoria", "none", NoPred,
                    CategoriaInfo("", NewCategoria(NoId, "")))}
    \cup {PagedCall("get_produtos", "Categoria", "none", NoPred, info) :
            info \in {x \in CategoriaInfos(D) : x.kind # "str"}}

\* What the call q answers on storage D for the given page and page_size.
Paged(D, q, page, page_size) ==
    CASE q.op = "get_all" -> get_all(D, q.repo, q.load_options, page, page_size)
      [] q.op = "get" -> get(D, q.repo, q.pred, q.load_options, page, page_size)
      [] q.op = "produtos_por_preco" ->
            produtos_por_preco(D, q.pred.lo, q.pred.hi, page, page_size)
      [] q.op = "produtos_sem_estoque" -> produtos_sem_estoque(D, page, page_size)
      [] q.op = "produtos_inativos" -> produtos_inativos(D, page, page_size)
      [] q.op = "get_categorias_sem_produtos" ->
            get_categorias_sem_produtos(D, page, page_size)
      [] q.op = "get_produtos" -> get_produtos(D, q.info, page, page_size, 0)

RECURSIVE Flatten(_)
Flatten(ss) == IF ss = <<>> THEN <<>> ELSE Head(ss) \o Flatten(Tail(ss))

\* The elements at positions (i-1)*k .. i*k-1 (counted from 0) of full.
Positions(full, i, k) ==
    SubSeq(full, (i - 1) * k + 1, IF i * k < Len(full) THEN i * k ELSE Len(full))

GenericOps ==
    {"get_all", "get", "produtos_por_preco", "produtos_sem_estoque", "produtos_inativos",
     "get_categorias_sem_produtos"}

\* C1: on any storage, for every paginated call and every page_size k >= 1,
\* page i is the elements at positions (i-1)*k .. i*k-1 of the unpaginated
\* result, and pages 1..ceil(N/k) concatenated are the unpaginated result:
\* every row once, in the same order.
C1_PaginationPartition ==
    \A q \in PagedCalls(Storage) :
        LET full == Paged(Storage, q, None, None).res
            N == Len(full)
        IN  \A k \in 1..(MaxPage + 1) :
                LET pages == (N + k - 1) \div k
                    P(i) == Paged(Storage, q, Some(i), Some(k))
                IN  /\ \A i \in 1..(pages + 1) :
                           P(i).err = "" /\ P(i).res = Positions(full, i, k)
                    /\ Flatten([i \in 1..pages |-> P(i).res]) = full

C1_Witness ==
    /\ last.op = "get_produtos" /\ last.repo = "UUID" /\ last.err = ""
    /\ last.page = Some(2) /\ last.size = Some(1)
    /\ Len(produtos) = 2 /\ last.res = <<AsProduto(produtos[2])>>

\* C2: get_all, get and the shortcuts over get, called with both page and
\* page_size given and one of them below 1, raise ValueError having executed
\* no query, and the stored rows are as they were.
C2_ValidationBeforeQuery ==
    [][(last'.op \in GenericOps /\ Invalid(last'.page, last'.size)) =>
          /\ last'.err = "ValueError"
          /\ ~last'.touched
          /\ last'.res = <<>>
          /\ StorageNext = Storage]_vars

C2_Witness ==
    /\ last.op = "produtos_inativos" /\ last.err = "ValueError"
    /\ last.page = Some(1) /\ last.size = Some(0)
    /\ Len(produtos) = 2

\* C3 as claimed: get_produtos, given a Categoria or a UUID and both page and
\* page_size with one of them below 1, raises ValueError before a session is
\* opened or a query run.
C3_Claimed ==
    [][(/\ last'.op = "get_produtos"
        /\ last'.repo \in {"Categoria", "UUID"}
        /\ Invalid(last'.page, last'.size)) =>
          /\ last'.err = "ValueError"
          /\ last'.sessions = 0
          /\ ~last'.touched]_vars

C6_DeleteCompleteness ==
    [][(last'.op = "delete" /\ HasRow(Table(Storage, last'.repo), last'.key)) =>
          /\ last'.err = ""
          /\ get_by_id(StorageNext, last'.repo, <<last'.key>>, FALSE).res = None
          /\ count(StorageNext, last'.repo, NoPred).res[1]
               = count(Storage, last'.repo, NoPred).res[1] - 1]_vars

C6_Witness ==
    /\ last.op = "delete" /\ last.err = "" /\ last.repo = "Categoria"
    /\ Len(categorias) = 1 /\ last.res[1] = 2

\* C7 as claimed: delete(e) with a key no row has raises nothing and leaves
\* the stored rows as they were.
C7_Claimed ==
    [][(last'.op = "delete" /\ ~HasRow(Table(Storage, last'.repo), last'.key)) =>
          (last'.err = "" /\ StorageNext = Storage)]_vars

\* C7 as amended: delete(e) with a key no row has raises InvalidRequestError
\* (the merged instance is not persistent) and leaves the stored rows as they
\* were.
C7_DeleteAbsentRaises ==
    [][(last'.op = "delete" /\ ~HasRow(Table(Storage, last'.repo), last'.key)) =>
          (last'.err = "InvalidRequestError" /\ StorageNext = Storage)]_vars

C7_Witness ==
    /\ last.op = "delete" /\ last.err = "InvalidRequestError"
    /\ last.key # NoId /\ Len(categorias) + Len(produtos) > 0

\* C8: update(entity) that returned normally: when a row had the entity's key
\* that row now carries the entity's fields and the row count is unchanged;
\* when none had, the entity was inserted and the row count grew by one.
C8_Upsert ==
    [][(last'.op = "update" /\ last'.err = "") =>
          LET x == last'.ent[1]
              before == Table(Storage, last'.repo)
              after == Table(StorageNext, last'.repo)
          IN  /\ HasRow(after, last'.key)
              /\ \A c \in (x.loaded \cap Comparable(last'.repo)) :
                     RowOf(after, last'.key)[c] = x[c]
              /\ Len(after) = IF HasRow(before, last'.key) THEN Len(before)
                              ELSE Len(before) + 1]_vars

C8_Witness ==
    /\ last.op = "update" /\ last.err = "" /\ ~last.pending
    /\ last.repo = "Produto" /\ last.ent[1].preco = 2500
    /\ Len(produtos) = 2

\* C9: a delete of a Categoria that returned normally leaves no product whose
\* categoria_id was that category's key when the call began.
C9_Cascade ==
    [][(last'.op = "delete" /\ last'.repo = "Categoria" /\ last'.err = "") =>
          \A i \in 1..Len(produtos) :
              produtos[i].categoria_id = last'.key => ~HasRow(produtos', produtos[i].id)]_vars

C9_Witness ==
    /\ last.op = "delete" /\ last.repo = "Categoria" /\ last.err = ""
    /\ last.res[2] = 2 /\ Len(produtos) = 0

Mutators == {"add", "bulk_add", "update", "delete"}

\* C11: an add, bulk_add, update or delete that raised leaves the stored rows
\* exactly as they were when the call began, and what it raised is the error
\* of the failing statement (IntegrityError of the INSERT, InvalidRequestError
\* of Session.delete), raised once.
C11_AllOrNothing ==
    [][(last'.op \in Mutators /\ last'.err # "") =>
          /\ StorageNext = Storage
          /\ last'.err \in {"IntegrityError", "InvalidRequestError"}
          /\ last'.sessions = 1]_vars

C11_Witness ==
    /\ last.op = "bulk_add" /\ last.err = "IntegrityError"
    /\ Len(last.ent[1]) = 2
    /\ "nome" \in last.ent[1][1].loaded /\ "id" \notin last.ent[1][1].loaded
    /\ "nome" \notin last.ent[1][2].loaded
    /\ Len(categorias) + Len(produtos) = 1

\* C12: when a public method has finished, by returning or by raising
\* (ValueError, TypeError, a storage error), every session it opened is
\* closed.
C12_NoLeakedSession == Finished(txn) => txn.open = 0

C12_Witness ==
    /\ Finished(txn) /\ txn.op = "get_all" /\ txn.err = "ValueError"
    /\ txn.opened = 1 /\ txn.open = 0

\* The keys of the rows of a table that the next state no longer has.
Gone(rows, after) == {id \in IdsOf(rows) : ~HasRow(after, id)}

\* C13 as claimed: a query leaves the stored rows as they are, and a row
\* leaves storage only in a delete call.
C13_Claimed ==
    [][/\ (last'.op \in {"get_by_id", "count"} => StorageNext = Storage)
       /\ (Gone(categorias, categorias') \cup Gone(produtos, produtos') # {}
              => last'.op = "delete")]_vars

\* C13 as amended: a query leaves the stored rows as they are; a category row
\* leaves storage only in a delete of that category; a product row leaves
\* storage only in a delete of that product, in the cascade of a delete of a
\* category, or in an update of the category that owns it with a loaded
\* lista_de_produtos that lacks it (delete-orphan).
C13_RowsLeaveByDeleteOrOrphan ==
    [][/\ (last'.op \in {"get_by_id", "count"} => StorageNext = Storage)
       /\ (Gone(categorias, categorias') # {} =>
              /\ last'.op = "delete" /\ last'.repo = "Categoria"
              /\ Gone(categorias, categorias') = {last'.key})
       /\ \A id \in Gone(produtos, produtos') :
              \/ last'.op = "delete" /\ last'.repo = "Produto" /\ id = last'.key
              \/ last'.op = "delete" /\ last'.repo = "Categoria"
              \/ /\ last'.op = "update" /\ last'.repo = "Categoria"
                 /\ "lista_de_produtos" \in last'.ent[1].loaded
                 /\ RowOf(produtos, id).categoria_id = last'.key
                 /\ \A k \in 1..Len(last'.ent[1].lista_de_produtos) :
                        last'.ent[1].lista_de_produtos[k].id # id]_vars

C13_Witness ==
    /\ last.op = "update" /\ last.repo = "Categoria" /\ last.err = ""
    /\ "lista_de_produtos" \in last.ent[1].loaded
    /\ last.res[2] = 2 /\ Len(produtos) = 1

\* The primary keys of the products a get_produtos call answered.
ProductIds(r) == {r.res[i].id : i \in 1..Len(r.res)}

\* C14 as claimed: for a Categoria value c that get_by_id returned, in the
\* storage state one repository call later, get_produtos(c) and
\* get_produtos(c.id) answer the same set of products.
C14_Claimed ==
    [][(last.op = "get_by_id" /\ last.repo = "Categoria" /\ last.res # None) =>
          LET c == last.res[1]
              byValue == get_produtos(StorageNext, CategoriaInfo("Categoria", c),
                                      None, None, now')
              byKey == get_produtos(StorageNext, CategoriaInfo("UUID", NewCategoria(c.id, "")),
                                    None, None, now')
          IN  /\ byValue.err = byKey.err
              /\ ProductIds(byValue) = ProductIds(byKey)]_vars

\* The keys of the entities a query result holds, in order.
Ids(res) == [i \in 1..Len(res) |-> res[i].id]

\* Whether a call given load_options completed as the call without them did:
\* no error where that one had none, the same error otherwise, and the same
\* entities in the same order.
SameEntities(with, without) ==
    /\ with.err = without.err
    /\ Ids(with.res) = Ids(without.res)

\* C15 (as claimed): whatever the stored rows, predicate and pagination, a call
\* of get_all, get, get_first or get_by_id given load_options completes as the
\* same call without them and returns the same entities, in the same number.
C15_Claimed ==
    \A repo \in Repos : \A load_options \in LoadOptions :
        /\ \A page \in PageVals, page_size \in PageVals :
              /\ SameEntities(get_all(Storage, repo, load_options, page, page_size),
                              get_all(Storage, repo, "none", page, page_size))
              /\ \A pred \in Predicates(repo) :
                    SameEntities(get(Storage, repo, pred, load_options, page, page_size),
                                 get(Storage, repo, pred, "none", page, page_size))
        /\ \A pred \in Predicates(repo) :
              SameEntities(get_first(Storage, repo, pred, load_options),
                           get_first(Storage, repo, pred, "none"))
        /\ \A key \in {<<>>} \cup {<<id>> : id \in CatIds \cup ProdIds} :
              SameEntities(get_by_id(Storage, repo, key, load_options # "none"),
                           get_by_id(Storage, repo, key, FALSE))

\* Whether no stored row of the repository satisfies the predicate.
NoMatch(D, repo, pred) ==
    \A i \in 1..Len(Table(D, repo)) : ~Satisfies(D, Table(D, repo)[i], pred)

C17_TypeMismatch ==
    [][(last'.op = "get_produtos" /\ last'.repo \notin {"Categoria", "UUID"}) =>
          /\ last'.err = "TypeError"
          /\ last'.sessions = 0
          /\ ~last'.touched
          /\ StorageNext = Storage]_vars

C17_Witness ==
    /\ last.op = "get_produtos" /\ last.repo = "str" /\ last.err = "TypeError"
    /\ last.page = Some(0) /\ last.size = Some(1)
    /\ Len(categorias) = 2

\* C18: on any storage, for every load_options, page and page_size,
\* get(None, load_options, page, page_size) returns the list that
\* get_all(load_options, page, page_size) returns, or raises the error it raises.
C18_GetNoneIsGetAll ==
    \A repo \in Repos : \A load_options \in LoadOptions :
        \A page \in PageVals, page_size \in PageVals :
            LET byGet == get(Storage, repo, NoPred, load_options, page, page_size)
                byGetAll == get_all(Storage, repo, load_options, page, page_size)
            IN  byGet.err = byGetAll.err /\ byGet.res = byGetAll.res

C18_Witness ==
    /\ last.op = "get" /\ last.repo = "Categoria" /\ last.err = ""
    /\ last.page = Some(2) /\ last.size = Some(1)
    /\ Len(categorias) = 2 /\ Ids(last.res) = <<categorias[2].id>>

\* C19: after any sequence of add, update and delete, count(predicate) is the
\* length of the unpaginated get(predicate), and count() the length of
\* get_all().
C19_CountIsLenOfGet ==
    \A repo \in Repos :
        /\ \A pred \in Predicates(repo) :
              /\ count(Storage, repo, pred).err = ""
              /\ count(Storage, repo, pred).res =
                    Some(Len(get(Storage, repo, pred, "none", None, None).res))
        /\ count(Storage, repo, NoPred).res =
              Some(Len(get_all(Storage, repo, "none", None, None).res))

C19_Witness ==
    /\ last.op = "count" /\ last.repo = "Produto" /\ last.ent = Some(PrecoBetween(2000, 4000))
    /\ Len(produtos) = 2 /\ last.res = Some(1)

\* C20: on any storage and for every predicate, get_first(predicate) raises
\* nothing and returns at most one entity: None when the unpaginated
\* get(predicate) is empty, the first element of that list otherwise (the first
\* stored row when predicate is None), whatever load_options it is given.
C20_FirstOfGet ==
    \A repo \in Repos : \A pred \in Predicates(repo) :
        LET full == get(Storage, repo, pred, "none", None, None).res
        IN  /\ (pred = NoPred /\ Table(Storage, repo) # <<>>) =>
                  full[1].id = Table(Storage, repo)[1].id
            /\ \A load_options \in LoadOptions :
                  LET first == get_first(Storage, repo, pred, load_options)
                  IN  /\ first.err = ""
                      /\ Len(first.res) <= 1
                      /\ first.res = None <=> full = <<>>
                      /\ first.res # None => first.res[1].id = full[1].id
                      /\ load_options = "none" =>
                             first.res = (IF full = <<>> THEN None ELSE Some(full[1]))

C20_Witness ==
    /\ last.op = "get_first" /\ last.repo = "Produto"
    /\ last.ent = Some(PrecoBetween(2000, 4000))
    /\ Len(produtos) = 2 /\ last.res = Some(AsProduto(produtos[2]))

SemProdutosIds(D) == IdsOf(get_categorias_sem_produtos(D, None, None).res)

\* The keys of the stored categories of D that no stored product names.
Unreferenced(D) ==
    {D.categorias[i].id : i \in 1..Len(D.categorias)}
        \ {D.produtos[i].categoria_id : i \in 1..Len(D.produtos)}

\* C22: in every storage state, get_categorias_sem_produtos() raises nothing
\* and returns, each once, the stored categories no stored product has as its
\* categoria_id; and over every call on the products, a category it returned
\* is not returned once a product names it, and one it did not return is
\* returned once no product names it.
C22_AntiJoin ==
    /\ [](LET r == get_categorias_sem_produtos(Storage, None, None)
          IN  /\ r.err = ""
              /\ Len(r.res) = Cardinality(IdsOf(r.res))
              /\ IdsOf(r.res) = Unreferenced(Storage))
    /\ [][(last'.repo = "Produto" /\ produtos' # produtos) =>
            LET before == SemProdutosIds(Storage)
                after == SemProdutosIds(StorageNext)
                named == {produtos'[i].categoria_id : i \in 1..Len(produtos')}
            IN  /\ \A c \in before : c \in named => c \notin after
                /\ \A c \in IdsOf(categorias') \ before : c \notin named => c \in after]_vars

C22_Witness ==
    /\ last.op = "add" /\ last.repo = "Produto" /\ last.err = ""
    /\ last.res = <<2, 0>> /\ Len(produtos) = 1 /\ produtos[1].categoria_id = 1
    /\ SemProdutosIds(Storage) = {2}

\* C23 (as claimed): in every storage state add, update and delete reach,
\* every stored row has dta_atualizacao >= dta_cadastro.
C23_Claimed ==
    /\ \A i \in 1..Len(categorias) :
          categorias[i].dta_atualizacao >= categorias[i].dta_cadastro
    /\ \A i \in 1..Len(produtos) :
          produtos[i].dta_atualizacao >= produtos[i].dta_cadastro

ReadOps == GenericOps \cup {"get_first", "get_by_id", "count", "get_produtos"}

\* C24: get_all, get, get_first, get_by_id, count, the predicate shortcuts and
\* get_produtos leave every stored row as it was, get_produtos also when it is
\* given a Categoria whose fields or product list differ from storage or
\* whose key is not stored.
C24_ReadsLeaveStorage ==
    [][last'.op \in ReadOps => StorageNext = Storage]_vars

C24_Witness ==
    /\ last.op = "get_produtos" /\ last.repo = "Categoria" /\ last.err = ""
    /\ HasRow(categorias, last.key)
    /\ last.ent[1].nome # RowOf(categorias, last.key).nome
    /\ "lista_de_produtos" \in last.ent[1].loaded
    /\ Len(last.ent[1].lista_de_produtos) = 1
    /\ Len(OwnedBy(produtos, last.key)) = 2

\* C25 (as claimed): in every storage state add, update and delete reach on
\* the two repositories, every stored product's categoria_id is null or the
\* key of a stored category, and get_produtos(c.id) returns the stored
\* products whose categoria_id is c.id and no other.
C25_Claimed ==
    /\ \A i \in 1..Len(produtos) :
          produtos[i].categoria_id = NoId \/ HasRow(categorias, produtos[i].categoria_id)
    /\ \A k \in 1..Len(categorias) :
          LET c == categorias[k]
              r == get_produtos(Storage, CategoriaInfo("UUID", NewCategoria(c.id, "")),
                                None, None, now)
          IN  /\ r.err = ""
              /\ ProductIds(r) = {produtos[i].id : i \in {j \in 1..Len(produtos) :
                                                          produtos[j].categoria_id = c.id}}

\* Whether an entity value is a materialized Categoria: every column loaded.
Materialized(v) == CatCols \subseteq v.loaded

\* C26 (as claimed): an update of a materialized Categoria, its loaded product
\* list older than storage or not, leaves every stored Produto row as it was.
C26_Claimed ==
    [][(/\ last'.op = "update" /\ last'.repo = "Categoria" /\ last'.err = ""
        /\ Materialized(last'.ent[1])) => produtos' = produtos]_vars

\* C26 (as amended): an update of a Categoria c leaves every other category
\* row as it was.  With c.lista_de_produtos not loaded it leaves every Produto
\* row as it was.  With the list loaded it deletes the stored products of c
\* the list lacks, inserts the listed products that were not stored, leaves
\* every listed product stored with c's key as its categoria_id, and leaves
\* every product that is neither listed nor c's own as it was.
C26_UpdateCategoriaFrame ==
    [][(last'.op = "update" /\ last'.repo = "Categoria" /\ last'.err = "") =>
          LET c == last'.ent[1]
              k == last'.key
              hasList == "lista_de_produtos" \in c.loaded
              listed == IF hasList THEN IdsOf(c.lista_de_produtos) ELSE {}
              owned == IF HasRow(categorias, k) THEN IdsOf(OwnedBy(produtos, k)) ELSE {}
          IN  /\ \A i \in 1..Len(categorias) :
                    categorias[i].id # k =>
                        /\ HasRow(categorias', categorias[i].id)
                        /\ RowOf(categorias', categorias[i].id) = categorias[i]
              /\ ~hasList => produtos' = produtos
              /\ hasList =>
                    /\ Gone(produtos, produtos') = owned \ listed
                    /\ IdsOf(produtos') \ IdsOf(produtos) = listed \ IdsOf(produtos)
                    /\ \A id \in listed :
                          HasRow(produtos', id) /\ RowOf(produtos', id).categoria_id = k
                    /\ \A i \in 1..Len(produtos) :
                          produtos[i].id \notin (listed \cup owned) =>
                              RowOf(produtos', produtos[i].id) = produtos[i]]_vars

C26_Witness ==
    /\ last.op = "update" /\ last.repo = "Categoria" /\ last.err = ""
    /\ Materialized(last.ent[1])
    /\ Len(last.ent[1].lista_de_produtos) = 1
    /\ last.res = <<1, 0>> /\ Len(produtos) = 1

\* Both callers' updates of the one key, in the same repository, have
\* committed without an error.
BothCommitted ==
    /\ \A c \in Callers : txn[c].pc = "done"
    /\ txn[1].repo = txn[2].repo

LastCaller == CHOOSE c \in Callers : txn[c].seq = 2

\* C10 as claimed: after both callers' updates have committed, the stored row
\* equals, field for field, the entity of the caller whose commit came last.
C10_Claimed ==
    (DOMAIN txn = Callers /\ BothCommitted) =>
        LET x == txn[LastCaller].ent[1]
            row == RowOf(Table(Storage, txn[LastCaller].repo), RaceKey)
        IN  \A c \in (x.loaded \cap Comparable(txn[LastCaller].repo)) : row[c] = x[c]

\* C10 as amended: after both commits, a field in which the last committer's
\* entity differs from the row its merge read holds that entity's value; every
\* other field holds what the earlier commit left there; and the row equals
\* the last committer's entity field for field when its merge read the row
\* the earlier commit left.
C10_LastCommitPerField ==
    (DOMAIN txn = Callers /\ BothCommitted) =>
        LET L == txn[LastCaller]
            x == L.ent[1]
            read == L.snap[1]
            left == L.before[1]
            row == RowOf(Table(Storage, L.repo), RaceKey)
        IN  /\ ~L.pending
            /\ \A c \in Comparable(L.repo) :
                   IF c \in x.loaded /\ x[c] # read[c] THEN row[c] = x[c]
                   ELSE row[c] = left[c]
            /\ read = left =>
                   \A c \in (x.loaded \cap Comparable(L.repo)) : row[c] = x[c]

C10_Witness ==
    /\ DOMAIN txn = Callers /\ BothCommitted
    /\ txn[LastCaller].repo = "Produto"
    /\ txn[LastCaller].snap # txn[LastCaller].before
    /\ "preco" \in txn[LastCaller].ent[1].loaded
    /\ txn[LastCaller].ent[1].preco = 0
    /\ txn[LastCaller].ent[1].categoria_id = 1
    /\ txn[LastCaller].before[1].categoria_id = NoId
    /\ RowOf(produtos, RaceKey).preco = 2500
    /\ RowOf(produtos, RaceKey).categoria_id = 1

====
